---------------------------- MODULE Spec2Model ----------------------------
(***************************************************************************)
(* A model of the ray tracer in src/main.cpp: the two primitive           *)
(* intersection tests, the nearest-hit query Raycast, the recursive       *)
(* tracer RayTrace and the frame assembly loop of main.                   *)
(*                                                                         *)
(* Numbers.  Every float of the program is a fixed-point integer counting *)
(* thousandths (One = 1.0f), so SHADOW_BIAS = 0.001f is 1 and the         *)
(* sentinel NO_INTERSECTION = -1.0f is -1000.  Products and quotients are *)
(* rescaled and truncated toward zero (FMul, FDiv); the scenes that        *)
(* SpecIntersect, SpecRaycast and SpecTrace draw are laid out on whole    *)
(* coordinates so that the square roots taken are exact.                  *)
(*                                                                         *)
(* Four state machines share the variables; each leaves the others' at    *)
(* rest.  SpecIntersect calls one object's Intersect, SpecRaycast calls   *)
(* Raycast, SpecTrace (and SpecTraceTwice) run RayTrace with its stack of *)
(* recursive calls, SpecRender runs the pixel loop of main.               *)
(***************************************************************************)
EXTENDS Integers, Sequences, FiniteSets, TLC

VARIABLES
    phase,      \* where the run stands: "idle", "running", "done", "crashed"
    ray,        \* the ray handed to Intersect, Raycast or RayTrace
    obj,        \* SpecIntersect: the scene object under test
    out,        \* SpecIntersect: [called, s, point, normal] of the call
    scene,      \* [objects, lights]
    ret,        \* SpecRaycast: the IntersectionInfo that Raycast returned
    camera,     \* the Camera that main read from the scene file
    maxDepth,   \* the maxDepth main read from the scene file
    stack,      \* SpecTrace: the RayTrace calls in progress, innermost last
    calls,      \* SpecTrace: RayTrace invocations made for the primary ray
    result,     \* SpecTrace: the colour the outermost RayTrace returned
    shade,      \* SpecTrace: what the last round of the light loop did
    returned,   \* SpecTraceTwice: the colours returned so far, by maxDepth
    image,      \* SpecRender: [width, height, data]
    pixel,      \* SpecRender: the loop variables [x, y, i] of main
    colorSum,   \* SpecRender: the anti-aliasing accumulator
    antiAliasing, \* SpecRender: the answer to "Enable anti-aliasing?"
    slot,       \* SpecRender: the memory that colorSum is declared in
    seed,       \* SpecRender: the state of rand()
    traced,     \* SpecRender: the RayTrace calls made for the current pixel
    written     \* SpecRender: the SetColor calls made so far

intersectVars == <<obj, out>>

raycastVars == <<ret>>

traceVars == <<maxDepth, stack, calls, result, shade, returned>>

renderVars == <<image, pixel, colorSum, antiAliasing, slot, seed, traced, written>>

vars == <<phase, ray, scene, camera, intersectVars, raycastVars, traceVars, renderVars>>

(***************************************************************************)
(* Fixed-point arithmetic                                                  *)
(***************************************************************************)
One == 1000

Abs(a) == IF a < 0 THEN -a ELSE a

\* 1 when a and b have the same sign, -1 otherwise
Sign(a, b) == IF (a >= 0) = (b >= 0) THEN 1 ELSE -1

\* a * b / d rounded down for a, b >= 0, computed without forming a * b when
\* a is large: a = q * d + r gives q * b + (r * b) / d
MulDiv(a, b, d) == (a \div d) * b + ((a % d) * b) \div d

\* The product of two fixed-point numbers
FMul(a, b) == Sign(a, b) * MulDiv(Abs(a), Abs(b), One)

\* The quotient of two fixed-point numbers, b # 0
FDiv(a, b) == Sign(a, b) * MulDiv(Abs(a), One, Abs(b))

Square(a) == FMul(a, a)

\* glm::pow(base, exponent) for a whole exponent
RECURSIVE FPowInt(_, _)
FPowInt(base, k) ==
    IF k = 0 THEN One
    ELSE IF k % 2 = 0
         THEN Square(FPowInt(base, k \div 2))
         ELSE FMul(base, FPowInt(base, k - 1))

FPow(base, exponent) ==
    IF base = One \/ exponent = 0 THEN One
    ELSE IF base = 0 THEN 0
    ELSE FPowInt(base, exponent \div One)

FMax(a, b) == IF a >= b THEN a ELSE b

\* Largest r with r*r <= n (Newton's iteration from above)
RECURSIVE SqrtFrom(_, _)
SqrtFrom(n, r) == IF r * r <= n THEN r ELSE SqrtFrom(n, (r + n \div r) \div 2)

ISqrt(n) == IF n <= 1 THEN n ELSE SqrtFrom(n, IF n < 46340 THEN n ELSE 46340)

\* glm::sqrt on a fixed-point argument
FSqrt(a) == ISqrt(a * One)

IsSquare(a) == a >= 0 /\ FSqrt(a) * FSqrt(a) = a * One

(***************************************************************************)
(* glm::vec3                                                               *)
(***************************************************************************)
Vec(x, y, z) == <<x, y, z>>

Zero3 == Vec(0, 0, 0)

VAdd(a, b) == Vec(a[1] + b[1], a[2] + b[2], a[3] + b[3])

VSub(a, b) == Vec(a[1] - b[1], a[2] - b[2], a[3] - b[3])

VNeg(a) == Vec(-a[1], -a[2], -a[3])

\* scalar * vector
VScale(s, a) == Vec(FMul(s, a[1]), FMul(s, a[2]), FMul(s, a[3]))

\* component-wise product of two colours
VMul(a, b) == Vec(FMul(a[1], b[1]), FMul(a[2], b[2]), FMul(a[3], b[3]))

\* vector / scalar
VDiv(a, s) == Vec(FDiv(a[1], s), FDiv(a[2], s), FDiv(a[3], s))

Dot(a, b) == FMul(a[1], b[1]) + FMul(a[2], b[2]) + FMul(a[3], b[3])

Cross(a, b) ==
    Vec(FMul(a[2], b[3]) - FMul(a[3], b[2]),
        FMul(a[3], b[1]) - FMul(a[1], b[3]),
        FMul(a[1], b[2]) - FMul(a[2], b[1]))

\* glm::dot(v, v)
Dot2(a) == Dot(a, a)

MaxAbs(a) == FMax(FMax(Abs(a[1]), Abs(a[2])), Abs(a[3]))

\* The length of a whose largest component is m.  A float has the range to
\* square the far point of a directional light (999.0f); the fixed-point
\* square would leave 32 bits, so a long vector is scaled by m first.
LengthScaled(a, m) ==
    IF m <= 30 * One
    THEN FSqrt(Dot2(a))
    ELSE FMul(m, FSqrt(Dot2(VDiv(a, m))))

\* glm::length: sqrt(dot(v, v))
Length(a) == LengthScaled(a, MaxAbs(a))

Distance(a, b) == Length(VSub(a, b))

Normalize(a) == VDiv(a, Length(a))

\* glm::reflect(I, N) = I - N * dot(N, I) * 2
Reflect(i, n) == VSub(i, VScale(2 * Dot(n, i), n))

\* The vector types' constructors
Sphere(center, radius) == [kind |-> "sphere", center |-> center, radius |-> radius]

Triangle(a, b, c) == [kind |-> "triangle", A |-> a, B |-> b, C |-> c]

MkRay(origin, direction) == [origin |-> origin, direction |-> direction]

(***************************************************************************)
(* Program constants                                                       *)
(***************************************************************************)
NO_INTERSECTION == -1000

BACKGROUND_COLOR == Vec(0, 0, 0)

SHADOW_BIAS == 1

REFLECTION_BIAS == 1

REFLECTIVITY_CONSTANT == 128000

SAMPLES_PER_PIXEL == 5

DIRECTIONAL_LIGHT == 0

POINT_LIGHT == 1000

(***************************************************************************)
(* Sphere::Intersect (lines 67-98)                                         *)
(***************************************************************************)
\* m = P - C
SphereM(sphere, incomingRay) == VSub(incomingRay.origin, sphere.center)

SphereB(sphere, incomingRay) == Dot(SphereM(sphere, incomingRay), incomingRay.direction)

SphereC(sphere, incomingRay) ==
    Dot2(SphereM(sphere, incomingRay)) - Square(sphere.radius)

\* (b * b) - c
Discriminant(b, c) == Square(b) - c

SphereDiscriminant(sphere, incomingRay) ==
    Discriminant(SphereB(sphere, incomingRay), SphereC(sphere, incomingRay))

SphereT1(b, discriminant) == -b + FSqrt(discriminant)

SphereT2(b, discriminant) == -b - FSqrt(discriminant)

\* if (t1 > 0 or t2 > 0) s = (t1 > 0 and t1 < t2) ? t1 : t2;
SphereRoot(t1, t2) ==
    IF t1 > 0 \/ t2 > 0
    THEN (IF t1 > 0 /\ t1 < t2 THEN t1 ELSE t2)
    ELSE NO_INTERSECTION

\* The value of s when the function reaches "if (s != NO_INTERSECTION)"
SphereSolve(b, discriminant) ==
    IF discriminant = 0
    THEN -b
    ELSE IF discriminant > 0
         THEN SphereRoot(SphereT1(b, discriminant), SphereT2(b, discriminant))
         ELSE NO_INTERSECTION

SphereS(sphere, incomingRay) ==
    SphereSolve(SphereB(sphere, incomingRay), SphereDiscriminant(sphere, incomingRay))

\* The outputs of a call that found the point at distance s
SphereAt(sphere, s, point) ==
    [s |-> s, point |-> point, normal |-> Normalize(VSub(point, sphere.center))]

\* The returned distance and the two out-parameters after the call; outPoint
\* and outNormal are what the caller's variables held before it.
SphereOut(sphere, incomingRay, s, outPoint, outNormal) ==
    IF s # NO_INTERSECTION
    THEN SphereAt(sphere, s, VAdd(incomingRay.origin, VScale(s, incomingRay.direction)))
    ELSE [s |-> s, point |-> outPoint, normal |-> outNormal]

SphereIntersect(sphere, incomingRay, outPoint, outNormal) ==
    SphereOut(sphere, incomingRay, SphereS(sphere, incomingRay), outPoint, outNormal)

(***************************************************************************)
(* Triangle::Intersect (lines 115-138)                                     *)
(*                                                                         *)
(* t, u and v are quotients by f, which the code takes before it tests f.  *)
(* A float quotient by zero is an infinity or a NaN, so the three are      *)
(* values of class "num", "inf", "ninf" or "nan", compared as IEEE 754     *)
(* compares them (every comparison with a NaN is false).                   *)
(***************************************************************************)
Num(a) == [cls |-> "num", v |-> a]

IEEEDiv(a, b) ==
    IF b # 0 THEN Num(FDiv(a, b))
    ELSE IF a > 0 THEN [cls |-> "inf", v |-> 0]
    ELSE IF a < 0 THEN [cls |-> "ninf", v |-> 0]
    ELSE [cls |-> "nan", v |-> 0]

IEEEAdd(x, y) ==
    IF x.cls = "nan" \/ y.cls = "nan" THEN [cls |-> "nan", v |-> 0]
    ELSE IF x.cls = "num" /\ y.cls = "num" THEN Num(x.v + y.v)
    ELSE IF x.cls = "num" THEN y
    ELSE IF y.cls = "num" THEN x
    ELSE IF x.cls = y.cls THEN x
    ELSE [cls |-> "nan", v |-> 0]

GtZero(x) == (x.cls = "num" /\ x.v > 0) \/ x.cls = "inf"

GeZero(x) == (x.cls = "num" /\ x.v >= 0) \/ x.cls = "inf"

LeOne(x) == (x.cls = "num" /\ x.v <= One) \/ x.cls = "ninf"

TriangleN(tri) == Cross(VSub(tri.B, tri.A), VSub(tri.C, tri.A))

TriangleE(tri, incomingRay) ==
    Cross(VNeg(incomingRay.direction), VSub(incomingRay.origin, tri.A))

TriangleF(incomingRay, n) == Dot(VNeg(incomingRay.direction), n)

TriangleT(tri, incomingRay, n, f) ==
    IEEEDiv(Dot(VSub(incomingRay.origin, tri.A), n), f)

TriangleU(tri, e, f) == IEEEDiv(Dot(VSub(tri.C, tri.A), e), f)

TriangleV(tri, e, f) == IEEEDiv(-Dot(VSub(tri.B, tri.A), e), f)

\* A plausible slip: the front-face test on f left out
TriangleAcceptNoFaceTest(f, t, u, v) ==
    GtZero(t) /\ GeZero(u) /\ GeZero(v) /\ LeOne(IEEEAdd(u, v))

\* if (f > 0 and t > 0 and u >= 0 and v >= 0 and u + v <= 1)
TriangleAccept(f, t, u, v) ==
    f > 0 /\ GtZero(t) /\ GeZero(u) /\ GeZero(v) /\ LeOne(IEEEAdd(u, v))

TriangleS(f, t, u, v) == IF TriangleAccept(f, t, u, v) THEN t.v ELSE NO_INTERSECTION

\* The returned distance and the two out-parameters after the call
TriangleOut(incomingRay, n, t, s, outPoint, outNormal) ==
    IF s # NO_INTERSECTION
    THEN [s |-> s,
          point |-> VAdd(incomingRay.origin, VScale(t.v, incomingRay.direction)),
          normal |-> Normalize(n)]
    ELSE [s |-> s, point |-> outPoint, normal |-> outNormal]

\* The function from the test of f, t, u and v on
TriangleTest(incomingRay, n, f, t, u, v, outPoint, outNormal) ==
    TriangleOut(incomingRay, n, t, TriangleS(f, t, u, v), outPoint, outNormal)

\* The function from the three quotients on
TriangleDivide(tri, incomingRay, n, e, f, outPoint, outNormal) ==
    TriangleTest(incomingRay, n, f, TriangleT(tri, incomingRay, n, f),
                 TriangleU(tri, e, f), TriangleV(tri, e, f), outPoint, outNormal)

TriangleIntersect(tri, incomingRay, outPoint, outNormal) ==
    TriangleDivide(tri, incomingRay, TriangleN(tri), TriangleE(tri, incomingRay),
                   TriangleF(incomingRay, TriangleN(tri)), outPoint, outNormal)

\* The virtual call scene.objects[i]->Intersect(...)
Intersect(object, incomingRay, outPoint, outNormal) ==
    IF object.kind = "sphere"
    THEN SphereIntersect(object, incomingRay, outPoint, outNormal)
    ELSE TriangleIntersect(object, incomingRay, outPoint, outNormal)

(***************************************************************************)
(* Raycast (lines 273-319)                                                 *)
(*                                                                         *)
(* ret.obj is an index into scene.objects, NULL for nullptr, or WILD for   *)
(* a pointer that was never assigned.  "IntersectionInfo ret;" leaves t,   *)
(* obj, intersectionPoint and intersectionNormal indeterminate: the        *)
(* parameter uninit is what the stack held there.                          *)
(***************************************************************************)
NULL == 0

WILD == -1

\* (infoTemp.t > 0 and ret.t > 0 and infoTemp.t < ret.t)
\*     or (ret.t == NO_INTERSECTION and infoTemp.t > 0)
RaycastOverwrites(tempT, retT) ==
    (tempT > 0 /\ retT > 0 /\ tempT < retT) \/ (retT = NO_INTERSECTION /\ tempT > 0)

\* infoTemp after the call of Intersect that returned hit
RaycastTemp(infoTemp, hit) ==
    [infoTemp EXCEPT !.t = hit.s,
                     !.intersectionPoint = hit.point,
                     !.intersectionNormal = hit.normal]

\* ret after the four assignments from infoTemp
RaycastTaken(i, retIn, temp) ==
    [retIn EXCEPT !.t = temp.t,
                  !.obj = i,
                  !.intersectionPoint = temp.intersectionPoint,
                  !.intersectionNormal = temp.intersectionNormal]

\* The if (i == 0) ... else ... of one round: <<ret, infoTemp>> after it
RaycastStore(i, retIn, temp) ==
    IF i = 1
    THEN IF temp.t # NO_INTERSECTION
         THEN <<RaycastTaken(i, retIn, temp), temp>>
         ELSE <<[retIn EXCEPT !.t = temp.t, !.obj = NULL], temp>>
    ELSE IF RaycastOverwrites(temp.t, retIn.t)
         THEN <<RaycastTaken(i, retIn, temp), temp>>
         ELSE <<retIn, temp>>

\* One round of the loop over scene.objects: <<ret, infoTemp>> after object i
RaycastIteration(i, retIn, infoTemp, sc) ==
    RaycastStore(i, retIn,
                 RaycastTemp(infoTemp,
                             Intersect(sc.objects[i], infoTemp.incomingRay,
                                       infoTemp.intersectionPoint,
                                       infoTemp.intersectionNormal)))

RECURSIVE RaycastLoop(_, _, _, _)
\* ++i and the rounds that follow
RaycastRest(i, next, sc) == RaycastLoop(i + 1, next[1], next[2], sc)

RaycastLoop(i, retIn, infoTemp, sc) ==
    IF i > Len(sc.objects) THEN retIn
    ELSE RaycastRest(i, RaycastIteration(i, retIn, infoTemp, sc), sc)

Raycast(r, sc, uninit) ==
    RaycastLoop(1,
                [uninit EXCEPT !.incomingRay = r],
                [uninit EXCEPT !.incomingRay = r,
                               !.intersectionPoint = Zero3,
                               !.intersectionNormal = Zero3],
                sc)

\* What an unassigned IntersectionInfo can hold: a null or a stray pointer
\* beside a point and a normal that belong to no object
UninitInfo ==
    {[incomingRay |-> [origin |-> Zero3, direction |-> Zero3],
      t |-> 0, obj |-> o, intersectionPoint |-> Vec(One, One, 0),
      intersectionNormal |-> Vec(0, One, 0)] : o \in {NULL, WILD}}

(***************************************************************************)
(* RayTrace (lines 329-405)                                                *)
(*                                                                         *)
(* A call in progress is a frame [ray, maxDepth, intersectionInfo,         *)
(* material, i, color]: i is the light the loop stands at, material what   *)
(* intersectionInfo.obj->material reads.                                   *)
(***************************************************************************)
Material(ambient, diffuse, specular, shininess) ==
    [ambient |-> ambient, diffuse |-> diffuse, specular |-> specular,
     shininess |-> shininess]

NoMaterial == Material(Zero3, Zero3, Zero3, 0)

\* scene.lights[i].position.w == POINT_LIGHT
IsPointLight(light) == light.w = POINT_LIGHT

\* ambient = material.ambient * (light.ambient / lights.size())
AmbientTerm(material, light, numLights) ==
    VMul(material.ambient, VDiv(light.ambient, numLights * One))

DirectionToLight(info, light) ==
    IF IsPointLight(light)
    THEN Normalize(VSub(light.position, info.intersectionPoint))
    ELSE Normalize(VNeg(light.position))

\* diffuse = material.diffuse * light.diffuse * max(dot(dirToLight, normal), 0)
DiffuseTerm(material, info, light) ==
    VMul(VScale(FMax(Dot(DirectionToLight(info, light), info.intersectionNormal), 0),
                material.diffuse),
         light.diffuse)

\* pow(max(dot(reflectedLight, toCamera), 0), material.shininess)
SpecularStrength(material, info, light, cam) ==
    FPow(FMax(Dot(Reflect(VNeg(DirectionToLight(info, light)), info.intersectionNormal),
                  Normalize(VSub(cam.position, info.intersectionPoint))),
              0),
         material.shininess)

SpecularTerm(material, info, light, cam) ==
    VMul(VScale(SpecularStrength(material, info, light, cam), material.specular),
         light.specular)

\* 1 / (constant + linear * d + quadratic * d * d)
AttenuationAt(light, distanceToLight) ==
    FDiv(One, light.constant + FMul(light.linear, distanceToLight)
                + FMul(FMul(light.quadratic, distanceToLight), distanceToLight))

Attenuation(info, light) ==
    IF light.w # DIRECTIONAL_LIGHT
    THEN AttenuationAt(light, Distance(info.intersectionPoint, light.position))
    ELSE One

ShadowRay(info, light) ==
    MkRay(VAdd(info.intersectionPoint, VScale(SHADOW_BIAS, info.intersectionNormal)),
          DirectionToLight(info, light))

\* The far point a directional light is measured to: direction * 999.0f
FAR == 999

DistanceToLight(shadowRay, light) ==
    IF IsPointLight(light)
    THEN Distance(shadowRay.origin, light.position)
    ELSE Distance(shadowRay.origin, VScale(FAR * One, shadowRay.direction))

\* Lit when (.obj is null) or (.obj is not null but distance to
\* intersectionPoint is greater than distance to light)
Lit(shadowingInfo, shadowRay, distanceToLight) ==
    \/ shadowingInfo.obj = NULL
    \/ /\ shadowingInfo.obj # NULL
       /\ Distance(shadowRay.origin, shadowingInfo.intersectionPoint) > distanceToLight

\* if (maxDepth > 1)
Reflects(depth) == depth > 1

\* A plausible slip: the recursive call handed the caller's own maxDepth
SameDepth(depth) == depth

\* RayTrace(reflectionRay, scene, camera, maxDepth - 1)
ChildDepth(depth) == depth - 1

ReflectionRay(info) ==
    MkRay(VAdd(info.intersectionPoint, VScale(REFLECTION_BIAS, info.intersectionNormal)),
          Reflect(info.incomingRay.direction, info.intersectionNormal))

\* RayTrace(...) * material.shininess / REFLECTIVITY_CONSTANT
ReflectionTerm(childColor, material) ==
    VDiv(VScale(material.shininess, childColor), REFLECTIVITY_CONSTANT)

\* intersectionInfo.obj->material; garbage is what a read through a stray
\* obj pointer yields
MaterialOf(info, sc, garbage) ==
    IF info.obj = NULL THEN NoMaterial
    ELSE IF info.obj = WILD THEN garbage
    ELSE sc.objects[info.obj].material

\* The locals of a call whose Raycast returned info, up to
\* "if (intersectionInfo.obj != nullptr)"
Frame(r, depth, sc, info, garbage) ==
    [ray |-> r, maxDepth |-> depth, intersectionInfo |-> info,
     material |-> MaterialOf(info, sc, garbage),
     i |-> 1, color |-> BACKGROUND_COLOR]

NewFrame(r, depth, sc, uninit, garbage) ==
    Frame(r, depth, sc, Raycast(r, sc, uninit), garbage)

\* The light loop has rounds left in this frame
InLightLoop(frame, sc) ==
    frame.intersectionInfo.obj # NULL /\ frame.i <= Len(sc.lights)

\* color += ambient
WithAmbient(frame, light, numLights) ==
    VAdd(frame.color, AmbientTerm(frame.material, light, numLights))

\* color += (diffuse + specular) * attenuation
WithDirect(color, frame, light, cam) ==
    VAdd(color,
         VScale(Attenuation(frame.intersectionInfo, light),
                VAdd(DiffuseTerm(frame.material, frame.intersectionInfo, light),
                     SpecularTerm(frame.material, frame.intersectionInfo, light, cam))))

\* color after "color += ambient" and, when lit, the lit branch's
\* "color += (diffuse + specular) * attenuation"
LocalColor(frame, light, numLights, cam, lit) ==
    IF lit
    THEN WithDirect(WithAmbient(frame, light, numLights), frame, light, cam)
    ELSE WithAmbient(frame, light, numLights)

\* One round of the light loop of a call that makes no recursive call
\* (maxDepth <= 1): the frame after light frame.i
LocalRound(frame, light, shadowRay, sc, cam, uninit) ==
    [frame EXCEPT
        !.color = LocalColor(frame, light, Len(sc.lights), cam,
                             Lit(Raycast(shadowRay, sc, uninit), shadowRay,
                                 DistanceToLight(shadowRay, light))),
        !.i = frame.i + 1]

\* The rounds from light frame.i on, and "return color"
RECURSIVE LocalRounds(_, _, _, _)
LocalRounds(frame, sc, cam, uninit) ==
    IF InLightLoop(frame, sc)
    THEN LocalRounds(LocalRound(frame, sc.lights[frame.i],
                                ShadowRay(frame.intersectionInfo, sc.lights[frame.i]),
                                sc, cam, uninit),
                     sc, cam, uninit)
    ELSE frame.color

\* RayTrace(r, sc, cam, 1) in a scene that holds an object, where Raycast
\* leaves no pointer unset
RayTraceLocal(r, sc, cam, uninit) ==
    LocalRounds(NewFrame(r, 1, sc, uninit, NoMaterial), sc, cam, uninit)

(***************************************************************************)
(* Image (lines 182-223)                                                   *)
(*                                                                         *)
(* data is a function on the indices of the vector, from 0.  data[index]   *)
(* is unchecked: a write past the vector shows as an index outside         *)
(* 0 .. width * height * 3 - 1 entering the domain.                        *)
(***************************************************************************)
Image(w, h) ==
    [width |-> w, height |-> h, data |-> [k \in 0..(w * h * 3 - 1) |-> 0]]

\* glm::clamp(c, 0.0f, 1.0f)
Clamp01(c) == IF c < 0 THEN 0 ELSE IF c > One THEN One ELSE c

\* static_cast<unsigned char>(c * 255)
ToChar(c) == (Clamp01(c) * 255) \div One

\* A plausible slip: the three channels of a pixel left out of the index
IndexWithoutChannels(x, y, width) == y * width + x

\* int index = (y * width + x) * 3;
SetColorIndex(x, y, width) == (y * width + x) * 3

\* data[index] = byte
Store(data, index, byte) ==
    [k \in DOMAIN data \cup {index} |-> IF k = index THEN byte ELSE data[k]]

SetColorAt(img, index, color) ==
    [img EXCEPT !.data = Store(Store(Store(@, index, ToChar(color[1])),
                                     index + 1, ToChar(color[2])),
                               index + 2, ToChar(color[3]))]

SetColor(img, x, y, color) == SetColorAt(img, SetColorIndex(x, y, img.width), color)

(***************************************************************************)
(* GetRayThruPixel (lines 233-265)                                         *)
(*                                                                         *)
(* The camera holds tanHalfFovY for glm::tan(glm::radians(fovY) / 2).      *)
(* rand() is a generator with a state: seed is that state and Rand the     *)
(* step that a call makes, its result the new state, in 0 .. RandMax.      *)
(***************************************************************************)
RandMax == 7

Rand(s) == (5 * s + 3) % (RandMax + 1)

\* 0.5f, or static_cast<float>(rand()) / static_cast<float>(RAND_MAX)
PixelOffset(aa, r) == IF aa THEN (r * One) \div RandMax ELSE 500

CameraLookDirection(cam) == Normalize(VSub(cam.lookTarget, cam.position))

ViewportHeight(cam) == 2 * FMul(cam.focalLength, cam.tanHalfFovY)

ViewportWidth(cam) ==
    FDiv(cam.imageWidth * ViewportHeight(cam), cam.imageHeight * One)

CameraU(cam) == Normalize(Cross(CameraLookDirection(cam), cam.globalUp))

CameraV(cam) == Normalize(Cross(CameraU(cam), CameraLookDirection(cam)))

ViewportLowerLeft(cam) ==
    VSub(VSub(VAdd(cam.position, VScale(cam.focalLength, CameraLookDirection(cam))),
              VScale(ViewportWidth(cam) \div 2, CameraU(cam))),
         VScale(ViewportHeight(cam) \div 2, CameraV(cam)))

\* s = (pixelX + pixelXOffset) * viewportWidth / camera.imageWidth
ViewportS(cam, pixelX, xOffset) ==
    FDiv(FMul(pixelX * One + xOffset, ViewportWidth(cam)), cam.imageWidth * One)

\* t = (pixelY + pixelYOffset) * viewportHeight / camera.imageHeight
ViewportT(cam, pixelY, yOffset) ==
    FDiv(FMul(pixelY * One + yOffset, ViewportHeight(cam)), cam.imageHeight * One)

PixelPosition(cam, pixelX, pixelY, xOffset, yOffset) ==
    VAdd(VAdd(ViewportLowerLeft(cam),
              VScale(ViewportS(cam, pixelX, xOffset), CameraU(cam))),
         VScale(ViewportT(cam, pixelY, yOffset), CameraV(cam)))

\* The ray for the offsets that the call settled on
GetRayThruPixel(cam, pixelX, pixelY, xOffset, yOffset) ==
    MkRay(cam.position,
          Normalize(VSub(PixelPosition(cam, pixelX, pixelY, xOffset, yOffset),
                         cam.position)))

(***************************************************************************)
(* The pixel loop of main (lines 499-526)                                  *)
(***************************************************************************)
\* A plausible slip: the camera row taken to be the image row
SameRow(y, height) == y

\* image.height - y - 1
CameraRow(y, height) == height - y - 1

\* ++x, and ++y with x = 0 at the end of a row
NextPixel(p, img) ==
    IF p.x + 1 < img.width
    THEN [x |-> p.x + 1, y |-> p.y, i |-> 0]
    ELSE [x |-> 0, y |-> p.y + 1, i |-> 0]

\* y < image.height fails after the pixel p
LastPixel(p, img) == p.x + 1 >= img.width /\ p.y + 1 >= img.height
(***************************************************************************)
(* Scenes on the x-axis, shared by SpecRaycast and SpecTrace               *)
(***************************************************************************)
MaxObjects == 2

MaxLights == 2

\* A mirror-like material (shininess = REFLECTIVITY_CONSTANT) and a dull one
Shiny == Material(Vec(200, 100, 0), Vec(500, 500, 0), Vec(One, One, One), 128 * One)

Dull == Material(Vec(100, 100, 100), Vec(0, 400, 400), Vec(0, 0, 0), 0)

WithMaterial(object, material) == object @@ [material |-> material]

\* A small sphere at the origin, a second one facing it, a sphere enclosing
\* both, and a triangle behind the first facing +x
SmallSphere == WithMaterial(Sphere(Vec(0, 0, 0), 2 * One), Shiny)

FacingSphere == WithMaterial(Sphere(Vec(6 * One, 0, 0), One), Shiny)

EnclosingSphere == WithMaterial(Sphere(Vec(0, 0, 0), 10 * One), Dull)

BackTriangle ==
    WithMaterial(Triangle(Vec(-3 * One, -One, -One), Vec(-3 * One, 2 * One, -One),
                          Vec(-3 * One, -One, 2 * One)), Dull)

SceneObjects == {SmallSphere, FacingSphere, EnclosingSphere, BackTriangle}

Light(position, w, intensity, constant, linear) ==
    [position |-> position, w |-> w, ambient |-> intensity, diffuse |-> intensity,
     specular |-> intensity, constant |-> constant, linear |-> linear, quadratic |-> 0]

\* A point light between the two small spheres, one outside the enclosing
\* sphere, and a directional light shining down past both small spheres
SceneLights ==
    {Light(Vec(3500, 0, 0), POINT_LIGHT, Vec(One, One, One), One, 0),
     Light(Vec(20 * One, 0, 0), POINT_LIGHT, Vec(500, 500, 500), One, 100),
     Light(Vec(-600, -800, 0), DIRECTIONAL_LIGHT, Vec(One, 500, 0), One, 0)}

\* The sequences of at most n elements of S
RECURSIVE ListsUpTo(_, _)
ListsUpTo(S, n) ==
    IF n = 0 THEN {<<>>}
    ELSE LET shorter == ListsUpTo(S, n - 1)
         IN  shorter \cup {Append(l, x) : l \in {k \in shorter : Len(k) = n - 1},
                                          x \in S}

Distinct(l) == \A i, j \in 1..Len(l) : i # j => l[i] # l[j]

ObjectLists == {l \in ListsUpTo(SceneObjects, MaxObjects) : Distinct(l)}

LightLists == {l \in ListsUpTo(SceneLights, MaxLights) : Distinct(l)}

\* Rays along the x-axis, from outside, between and inside the spheres
AxisRays ==
    {MkRay(Vec(x, 0, 0), d) : x \in {-8 * One, -One, 3 * One, 12 * One},
                              d \in {Vec(One, 0, 0), Vec(-One, 0, 0)}}

(***************************************************************************)
(* The variables of a machine at rest                                      *)
(***************************************************************************)
PriorPoint == Vec(-77, -77, -77)

PriorNormal == Vec(-88, -88, -88)

NotCalled == [called |-> FALSE, s |-> 0, point |-> PriorPoint, normal |-> PriorNormal]

NoScene == [objects |-> <<>>, lights |-> <<>>]

NoCamera == [position |-> Zero3, imageWidth |-> 0, imageHeight |-> 0]

NoTraced == [calls |-> 0, start |-> Zero3, sum |-> Zero3, through |-> <<>>]

NoInfo ==
    [incomingRay |-> MkRay(Zero3, Zero3), t |-> 0, obj |-> NULL,
     intersectionPoint |-> Zero3, intersectionNormal |-> Zero3]

NoShade == [light |-> 0]

NoColor == Vec(-1, -1, -1)

IntersectAtRest == obj = NULL /\ out = NotCalled

RaycastAtRest == ret = NoInfo

TraceAtRest ==
    /\ maxDepth = 0 /\ stack = <<>> /\ calls = 0
    /\ result = NoColor /\ shade = NoShade /\ returned = <<>>

RenderAtRest ==
    /\ image = [width |-> 0, height |-> 0, data |-> <<>>]
    /\ pixel = [x |-> 0, y |-> 0, i |-> 0]
    /\ colorSum = Zero3
    /\ antiAliasing = FALSE
    /\ slot = [ctorInit |-> TRUE, holds |-> Zero3]
    /\ seed = 0
    /\ traced = NoTraced
    /\ written = <<>>

(***************************************************************************)
(* SpecIntersect: one object, one ray, one call of its Intersect.          *)
(***************************************************************************)
\* Whole coordinates reach from -Reach to Reach
Reach == 3

Coord == {k * One : k \in -Reach..Reach}

\* Unit directions: the six axes and the 3-4-5 diagonals of the xy-plane
AxisDirections ==
    {Vec(One, 0, 0), Vec(-One, 0, 0), Vec(0, One, 0),
     Vec(0, -One, 0), Vec(0, 0, One), Vec(0, 0, -One)}

Directions ==
    AxisDirections \cup {Vec(-600, -800, 0), Vec(600, 800, 0), Vec(-800, 600, 0)}

\* Spheres on and off the x-axis; an offset of 3 or 5 under a radius of 5
\* gives the discriminants 16 and 0.
TestSpheres ==
    {Sphere(Vec(0, cy, 0), r) : cy \in {0, 3 * One, 5 * One, 6 * One},
                                r \in {One, 2 * One, 5 * One}}

SphereRays ==
    {MkRay(Vec(x, 0, 0), d) : x \in Coord \cup {-7 * One, 7 * One},
                              d \in {Vec(One, 0, 0), Vec(-One, 0, 0), Vec(0, One, 0)}}

\* The discriminant is negative or has an exact square root
ExactSphereCase(sphere, r) ==
    SphereDiscriminant(sphere, r) < 0 \/ IsSquare(SphereDiscriminant(sphere, r))

\* One triangle in the plane x = 0 facing +x, one facing -x, one slanted
TestTriangles ==
    {Triangle(Vec(0, 0, 0), Vec(0, 2 * One, 0), Vec(0, 0, 2 * One)),
     Triangle(Vec(0, 0, 0), Vec(0, 0, 2 * One), Vec(0, 2 * One, 0)),
     Triangle(Vec(0, 0, 0), Vec(0, 2 * One, 0), Vec(2 * One, 0, 2 * One))}

TriangleRays ==
    {MkRay(Vec(x, y, z), d) : x \in Coord, y \in {-One, 500, One, 2500},
                              z \in {0, 500, 1500}, d \in Directions}

InitIntersect ==
    /\ \/ /\ obj \in TestSpheres
          /\ ray \in {r \in SphereRays : ExactSphereCase(obj, r)}
       \/ /\ obj \in TestTriangles
          /\ ray \in TriangleRays
    /\ out = NotCalled
    /\ phase = "idle"
    /\ scene = NoScene
    /\ camera = NoCamera
    /\ RaycastAtRest /\ TraceAtRest /\ RenderAtRest

CallSphereIntersect ==
    /\ obj.kind = "sphere"
    /\ ~out.called
    /\ out' = [called |-> TRUE] @@ SphereIntersect(obj, ray, out.point, out.normal)
    /\ UNCHANGED <<phase, ray, obj, scene, camera, raycastVars, traceVars, renderVars>>

CallTriangleIntersect ==
    /\ obj.kind = "triangle"
    /\ ~out.called
    /\ out' = [called |-> TRUE] @@ TriangleIntersect(obj, ray, out.point, out.normal)
    /\ UNCHANGED <<phase, ray, obj, scene, camera, raycastVars, traceVars, renderVars>>

NextIntersect == CallSphereIntersect \/ CallTriangleIntersect

SpecIntersect == InitIntersect /\ [][NextIntersect]_vars

(***************************************************************************)
(* C2.  Sphere::Intersect returns the sentinel or a strictly positive      *)
(* distance: no intersection when the discriminant is negative; with a     *)
(* zero discriminant s = -b only when that is positive; with a positive    *)
(* discriminant no intersection when both roots are <= 0, t2 when both     *)
(* are positive, and t1 when only t1 is positive.                          *)
(***************************************************************************)
C2_SphereClaimed(sphere, r) ==
    LET discriminant == SphereDiscriminant(sphere, r)
        t1 == SphereT1(SphereB(sphere, r), discriminant)
        t2 == SphereT2(SphereB(sphere, r), discriminant)
    IN  IF discriminant < 0 THEN NO_INTERSECTION
        ELSE IF discriminant = 0
             THEN (IF -SphereB(sphere, r) > 0 THEN -SphereB(sphere, r) ELSE NO_INTERSECTION)
             ELSE IF t1 <= 0 /\ t2 <= 0 THEN NO_INTERSECTION
                  ELSE IF t2 > 0 THEN t2 ELSE t1

C2_SphereReturnsSmallestPositiveRoot ==
    (out.called /\ obj.kind = "sphere") =>
        /\ out.s = C2_SphereClaimed(obj, ray)
        /\ (out.s = NO_INTERSECTION \/ out.s > 0)

(***************************************************************************)
(* C8.  Triangle::Intersect reports no intersection whenever f = 0, and    *)
(* reports a hit only when f > 0, t > 0, u >= 0, v >= 0 and u + v <= 1;    *)
(* on a miss the output point and normal keep what they held.              *)
(***************************************************************************)
C8_TriangleHitOnlyInsideFrontFace ==
    (out.called /\ obj.kind = "triangle") =>
        LET f == TriangleF(ray, TriangleN(obj))
            t == TriangleT(obj, ray, TriangleN(obj), f)
            u == TriangleU(obj, TriangleE(obj, ray), f)
            v == TriangleV(obj, TriangleE(obj, ray), f)
        IN  /\ f = 0 => out.s = NO_INTERSECTION
            /\ out.s # NO_INTERSECTION =>
                  /\ f > 0
                  /\ t.cls = "num" /\ t.v > 0 /\ out.s = t.v
                  /\ u.cls = "num" /\ u.v >= 0
                  /\ v.cls = "num" /\ v.v >= 0
                  /\ u.v + v.v <= One
            /\ out.s = NO_INTERSECTION =>
                  out.point = PriorPoint /\ out.normal = PriorNormal

\* A ray parallel to the plane, whose quotient t is an infinity, was tested
\* and left the outputs alone
C8_Witness ==
    /\ out.called /\ obj.kind = "triangle"
    /\ TriangleF(ray, TriangleN(obj)) = 0
    /\ TriangleT(obj, ray, TriangleN(obj), 0).cls = "inf"
    /\ out.s = NO_INTERSECTION /\ out.point = PriorPoint

\* A front-face hit was reported as well
C8_WitnessHit ==
    /\ out.called /\ obj.kind = "triangle"
    /\ out.s > 0 /\ out.point # PriorPoint

(***************************************************************************)
(* SpecRaycast: one scene, one ray, one call of Raycast.                   *)
(***************************************************************************)
InitRaycast ==
    /\ scene \in {[objects |-> l, lights |-> <<>>] : l \in ObjectLists}
    /\ ray \in AxisRays
    /\ ret = NoInfo
    /\ phase = "idle"
    /\ camera = NoCamera
    /\ IntersectAtRest /\ TraceAtRest /\ RenderAtRest

CallRaycast ==
    /\ phase = "idle"
    /\ \E uninit \in UninitInfo : ret' = Raycast(ray, scene, uninit)
    /\ phase' = "done"
    /\ UNCHANGED <<ray, scene, camera, intersectVars, traceVars, renderVars>>

NextRaycast == CallRaycast

SpecRaycast == InitRaycast /\ [][NextRaycast]_vars

(***************************************************************************)
(* C1.  Raycast returns the object whose Intersect distance is the         *)
(* smallest strictly positive one, whatever the objects listed before it   *)
(* return; of two objects at exactly that distance the earlier one; and    *)
(* obj = null when no object has a positive distance.  Stated here for the *)
(* lists that hold an object: the empty list is C3's case.                 *)
(***************************************************************************)
\* The distance object i's own Intersect returns for the ray
C1_DistanceOf(i) == Intersect(scene.objects[i], ray, Zero3, Zero3).s

C1_Nearest ==
    LET positive == {i \in 1..Len(scene.objects) : C1_DistanceOf(i) > 0}
    IN  IF positive = {} THEN NULL
        ELSE CHOOSE i \in positive :
                \A j \in positive :
                    \/ C1_DistanceOf(i) < C1_DistanceOf(j)
                    \/ (C1_DistanceOf(i) = C1_DistanceOf(j) /\ i <= j)

C1_RaycastReturnsNearestPositive ==
    (phase = "done" /\ Len(scene.objects) > 0) => ret.obj = C1_Nearest

(***************************************************************************)
(* SpecTrace: main's call RayTrace(ray, scene, camera, maxDepth) for one   *)
(* primary ray, with the recursive calls it makes.                         *)
(***************************************************************************)
MaxDepth == 3

\* The maxDepth values a scene file may hold
Depths == -1..MaxDepth

\* Primary rays leave the camera position
PrimaryRays ==
    {MkRay(Vec(3 * One, 0, 0), Vec(-One, 0, 0)), MkRay(Vec(3 * One, 0, 0), Vec(One, 0, 0))}

\* What a read of obj->material through a stray pointer can yield
GarbageMaterials == {Shiny, Dull}

Top == stack[Len(stack)]

\* The scenes a scene file may describe.  A scene without objects is given
\* at most one light: every Raycast on it returns the unset record, and what
\* that record may hold multiplies with every further light.
TraceScenes ==
    {sc \in {[objects |-> o, lights |-> l] : o \in ObjectLists, l \in LightLists} :
        Len(sc.objects) = 0 => Len(sc.lights) <= 1}

InitTrace ==
    /\ scene \in TraceScenes
    /\ ray \in PrimaryRays
    /\ camera = [position |-> ray.origin, imageWidth |-> 1, imageHeight |-> 1]
    /\ maxDepth \in Depths
    /\ phase = "idle"
    /\ stack = <<>> /\ calls = 0 /\ result = NoColor /\ shade = NoShade
    /\ returned = <<>>
    /\ IntersectAtRest /\ RaycastAtRest /\ RenderAtRest

\* main calls RayTrace for the primary ray
CallRayTrace ==
    /\ phase = "idle"
    /\ \E uninit \in UninitInfo, garbage \in GarbageMaterials :
          stack' = <<NewFrame(ray, maxDepth, scene, uninit, garbage)>>
    /\ calls' = 1
    /\ phase' = "running"
    /\ shade' = NoShade
    /\ UNCHANGED <<ray, scene, camera, maxDepth, result, returned,
                   intersectVars, raycastVars, renderVars>>

\* The end of a round whose shadow test gave lit and whose colour so far is
\* color: the recursive call, or the next light
ShadeRound(frame, lit, color) ==
    IF lit /\ Reflects(frame.maxDepth)
    THEN /\ \E childUninit \in UninitInfo, garbage \in GarbageMaterials :
               stack' =
                 Append([stack EXCEPT ![Len(stack)].color = color],
                        NewFrame(ReflectionRay(frame.intersectionInfo),
                                 ChildDepth(frame.maxDepth),
                                 scene, childUninit, garbage))
         /\ calls' = calls + 1
    ELSE /\ stack' = [stack EXCEPT ![Len(stack)].color = color,
                                   ![Len(stack)].i = frame.i + 1]
         /\ calls' = calls

\* What the round did, for the properties stated below
ShadeRecord(frame, shadowRay, shadowingInfo, distanceToLight, lit, color) ==
    [light |-> frame.i, level |-> Len(stack),
     before |-> frame.color, after |-> color,
     material |-> frame.material,
     shadowRay |-> shadowRay, shadowingInfo |-> shadowingInfo,
     distanceToLight |-> distanceToLight,
     recursed |-> lit /\ Reflects(frame.maxDepth)]

ShadeLit(frame, light, shadowRay, shadowingInfo, distanceToLight, lit) ==
    /\ shade' = ShadeRecord(frame, shadowRay, shadowingInfo, distanceToLight, lit,
                            LocalColor(frame, light, Len(scene.lights), camera, lit))
    /\ ShadeRound(frame, lit, LocalColor(frame, light, Len(scene.lights), camera, lit))

ShadeTest(frame, light, shadowRay, shadowingInfo, distanceToLight) ==
    ShadeLit(frame, light, shadowRay, shadowingInfo, distanceToLight,
             Lit(shadowingInfo, shadowRay, distanceToLight))

ShadeShadow(frame, light, shadowRay, uninit) ==
    ShadeTest(frame, light, shadowRay, Raycast(shadowRay, scene, uninit),
              DistanceToLight(shadowRay, light))

\* One round of the loop over scene.lights in the innermost call, up to the
\* recursive call it makes or, without one, to the end of the round
ShadeLight ==
    /\ phase = "running"
    /\ InLightLoop(Top, scene)
    /\ \E uninit \in UninitInfo :
          ShadeShadow(Top, scene.lights[Top.i],
                      ShadowRay(Top.intersectionInfo, scene.lights[Top.i]), uninit)
    /\ UNCHANGED <<phase, ray, scene, camera, maxDepth, result, returned,
                   intersectVars, raycastVars, renderVars>>

\* "return color" of the innermost call: to main, or into the round of the
\* caller's light loop that made the call
ReturnColor ==
    /\ phase = "running"
    /\ ~InLightLoop(Top, scene)
    /\ IF Len(stack) = 1
       THEN /\ result' = Top.color
            /\ phase' = "done"
            /\ stack' = <<>>
       ELSE LET caller == stack[Len(stack) - 1]
            IN  /\ stack' = [SubSeq(stack, 1, Len(stack) - 1) EXCEPT
                                ![Len(stack) - 1].color =
                                    VAdd(caller.color, ReflectionTerm(Top.color, caller.material)),
                                ![Len(stack) - 1].i = caller.i + 1]
                /\ UNCHANGED <<result, phase>>
    /\ shade' = NoShade
    /\ UNCHANGED <<ray, scene, camera, maxDepth, calls, returned,
                   intersectVars, raycastVars, renderVars>>

\* obj was never assigned and is not null: the read of obj->material may
\* fault instead of yielding garbage
StrayPointerFault ==
    /\ phase = "running"
    /\ InLightLoop(Top, scene)
    /\ Top.intersectionInfo.obj = WILD
    /\ phase' = "crashed"
    /\ UNCHANGED <<ray, scene, camera, traceVars,
                   intersectVars, raycastVars, renderVars>>

NextTrace == CallRayTrace \/ ShadeLight \/ ReturnColor \/ StrayPointerFault

SpecTrace == InitTrace /\ [][NextTrace]_vars

(***************************************************************************)
(* C3.  In a scene with zero objects Raycast returns obj = null for every  *)
(* ray, so every call of RayTrace sees no object and returns               *)
(* BACKGROUND_COLOR, and no read of an unset field decides the outcome.    *)
(***************************************************************************)
C3_EmptySceneIsBackground ==
    Len(scene.objects) = 0 =>
        /\ \A k \in 1..Len(stack) : stack[k].intersectionInfo.obj = NULL
        /\ phase # "crashed"
        /\ phase = "done" => result = BACKGROUND_COLOR

(***************************************************************************)
(* C4.  As claimed: for maxDepth d >= 1 the RayTrace invocations made for  *)
(* one primary ray, the primary call included, number at most d.  Stated   *)
(* for the scenes that hold an object: a run that exceeds d there owes     *)
(* nothing to the unset pointer of the empty scene.                        *)
(***************************************************************************)
C4_AtMostDepthCalls ==
    (maxDepth >= 1 /\ Len(scene.objects) > 0) => calls <= maxDepth

\* 1 + l + ... + l^(d-1): the calls of a tree of depth d in which every
\* call makes at most l recursive calls
RECURSIVE C4_TreeSize(_, _)
C4_TreeSize(l, d) == IF d <= 0 THEN 0 ELSE 1 + l * C4_TreeSize(l, d - 1)

C4_DepthBound ==
    maxDepth >= 1 =>
        /\ Len(stack) <= maxDepth
        /\ \A k \in 1..Len(stack) : stack[k].maxDepth = maxDepth - (k - 1)
        /\ calls <= C4_TreeSize(Len(scene.lights), maxDepth)

\* The steps a call of depth d can take, its return included, in a scene
\* of l lights: a round and a recursive call for every light
RECURSIVE C4_CallSteps(_, _)
C4_CallSteps(l, d) ==
    IF d <= 1 THEN 1 + l ELSE 1 + l * (1 + C4_CallSteps(l, d - 1))

\* The steps left to the call in frame k: its return, and the rounds from
\* light i on (the innermost call) or after light i (a call that waits for
\* the call it made in round i)
C4_FrameSteps(k) ==
    LET frame == stack[k]
        l == Len(scene.lights)
        rounds == IF k = Len(stack) THEN l - frame.i + 1 ELSE l - frame.i
        round == IF frame.maxDepth > 1
                 THEN 1 + C4_CallSteps(l, frame.maxDepth - 1)
                 ELSE 1
    IN  1 + rounds * round

RECURSIVE C4_StackSteps(_)
C4_StackSteps(k) == IF k = 0 THEN 0 ELSE C4_FrameSteps(k) + C4_StackSteps(k - 1)

\* A bound on the steps left to the primary call
C4_StepsLeft ==
    IF phase = "idle" THEN 1 + C4_CallSteps(Len(scene.lights), maxDepth)
    ELSE IF phase = "running" THEN C4_StackSteps(Len(stack))
    ELSE 0

(***************************************************************************)
(* C4, amended.  For maxDepth d >= 1 every recursive call of RayTrace is   *)
(* made with depth exactly one less than its caller, at most d calls are   *)
(* ever nested, and the invocations for one primary ray number at most     *)
(* 1 + L + ... + L^(d-1) for L lights (each lit light of a call makes its  *)
(* own recursive call); RayTrace terminates: every step of the primary     *)
(* call lowers a natural number, so no run of it is infinite.              *)
(***************************************************************************)
C4_RecursionBoundedByDepth ==
    /\ [](C4_DepthBound /\ C4_StepsLeft >= 0)
    /\ [][C4_StepsLeft' < C4_StepsLeft]_vars

\* A closed reflective scene traced to the full depth, with more calls made
\* than maxDepth
C4_Witness ==
    /\ maxDepth = MaxDepth
    /\ Len(stack) = MaxDepth
    /\ \A k \in 1..Len(stack) : stack[k].intersectionInfo.obj \in 1..Len(scene.objects)
    /\ calls > maxDepth

(***************************************************************************)
(* C6.  For each light whose shadow ray hits an object nearer than that    *)
(* light, the round of the light loop adds only the ambient term: no       *)
(* diffuse, no specular, no recursive call; and the ambient term is added  *)
(* in every round, lit or shadowed.                                        *)
(***************************************************************************)
\* The distance at which a ray leaving r.origin first meets the object: for
\* a sphere the smallest positive root of the quadratic, for a triangle its
\* front-face hit
C6_FirstMeets(object, r) ==
    IF object.kind = "sphere"
    THEN LET b == SphereB(object, r)
             discriminant == SphereDiscriminant(object, r)
         IN  IF discriminant < 0 THEN NO_INTERSECTION
             ELSE IF SphereT2(b, discriminant) > 0 THEN SphereT2(b, discriminant)
             ELSE IF SphereT1(b, discriminant) > 0 THEN SphereT1(b, discriminant)
             ELSE NO_INTERSECTION
    ELSE TriangleIntersect(object, r, Zero3, Zero3).s

C6_Occluded(shadowRay, distanceToLight) ==
    \E k \in 1..Len(scene.objects) :
        /\ C6_FirstMeets(scene.objects[k], shadowRay) > 0
        /\ C6_FirstMeets(scene.objects[k], shadowRay) < distanceToLight

C6_UnlitRoundAddsOnlyAmbient ==
    shade # NoShade =>
        LET frame == [stack[shade.level] EXCEPT !.color = shade.before]
            light == scene.lights[shade.light]
            ambient == WithAmbient(frame, light, Len(scene.lights))
        IN  /\ ~Lit(shade.shadowingInfo, shade.shadowRay, shade.distanceToLight) =>
                  shade.after = ambient /\ ~shade.recursed
            /\ shade.after \in {ambient, WithDirect(ambient, frame, light, camera)}

(***************************************************************************)
(* SpecTraceTwice: RayTrace called with a maxDepth of zero or less and,    *)
(* once it has returned, called again with maxDepth = 1 on the same ray,   *)
(* scene and camera.                                                       *)
(***************************************************************************)
InitTraceTwice == InitTrace /\ maxDepth <= 0

\* The second call; returned keeps what the first one did
CallRayTraceAgain ==
    /\ phase = "done"
    /\ returned = <<>>
    /\ returned' = <<[color |-> result, calls |-> calls]>>
    /\ maxDepth' = 1
    /\ \E uninit \in UninitInfo, garbage \in GarbageMaterials :
          stack' = <<NewFrame(ray, 1, scene, uninit, garbage)>>
    /\ calls' = 1
    /\ phase' = "running"
    /\ shade' = NoShade
    /\ UNCHANGED <<ray, scene, camera, result, intersectVars, raycastVars, renderVars>>

NextTraceTwice ==
    CallRayTrace \/ ShadeLight \/ ReturnColor \/ StrayPointerFault \/ CallRayTraceAgain

SpecTraceTwice == InitTraceTwice /\ [][NextTraceTwice]_vars

(***************************************************************************)
(* C5.  RayTrace called with maxDepth <= 0 makes no recursive call and     *)
(* returns the colour that the call with maxDepth = 1 returns on the same  *)
(* ray, scene and camera.                                                  *)
(***************************************************************************)
C5_NonPositiveDepthIsDepthOne ==
    /\ maxDepth <= 1 => calls <= 1
    /\ (phase = "done" /\ Len(returned) = 1) => result = returned[1].color

\* What holds of the scenes that hold an object: there the two calls agree
C5_AgreeOnSceneWithObject ==
    Len(scene.objects) > 0 =>
        /\ maxDepth <= 1 => calls <= 1
        /\ phase # "crashed"
        /\ (phase = "done" /\ Len(returned) = 1) => result = returned[1].color

(***************************************************************************)
(* SpecRender: the pixel loop of main over one image, with maxDepth = 1.   *)
(*                                                                         *)
(* "glm::vec3 colorSum;" runs glm's default constructor, which zeroes the  *)
(* vector in the builds that define GLM_FORCE_CTOR_INIT (and in glm before *)
(* 0.9.9) and writes nothing in the others: there colorSum starts as what  *)
(* its memory holds, which is what the pixel before left in it.            *)
(***************************************************************************)
MaxWidth == 3

MaxHeight == 2

\* A camera at the origin that looks down -z through a viewport of height 2
RenderCamera(w, h) ==
    [position |-> Zero3, lookTarget |-> Vec(0, 0, -One), globalUp |-> Vec(0, One, 0),
     focalLength |-> One, tanHalfFovY |-> One, imageWidth |-> w, imageHeight |-> h]

\* A sphere before the camera, lit from the camera's left
RenderScene ==
    [objects |-> <<WithMaterial(Sphere(Vec(0, 0, -3 * One), 2 * One), Shiny)>>,
     lights |-> <<Light(Vec(-2 * One, 0, 0), POINT_LIGHT, Vec(One, One, One), One, 0)>>]

\* What the memory of colorSum may hold before the first pixel
StaleColors == {Zero3, Vec(One, 0, 0)}

Slots ==
    {[ctorInit |-> TRUE, holds |-> Zero3]}
        \cup {[ctorInit |-> FALSE, holds |-> c] : c \in StaleColors}

InitRender ==
    /\ \E w \in 1..MaxWidth, h \in 1..MaxHeight :
          /\ camera = RenderCamera(w, h)
          /\ image = Image(w, h)
    /\ antiAliasing \in BOOLEAN
    /\ slot \in Slots
    /\ seed \in 0..RandMax
    /\ scene = RenderScene
    /\ maxDepth = 1
    /\ pixel = [x |-> 0, y |-> 0, i |-> 0]
    /\ colorSum = Zero3
    /\ traced = NoTraced
    /\ written = <<>>
    /\ phase = "pixel"
    /\ ray = MkRay(Zero3, Zero3)
    /\ stack = <<>> /\ calls = 0 /\ result = NoColor /\ shade = NoShade
    /\ returned = <<>>
    /\ IntersectAtRest /\ RaycastAtRest

\* image.SetColor(x, y, color) and the step of the two loops after it;
\* through is what traced holds of the pixel's RayTrace calls
WritePixel(color, through) ==
    /\ image' = SetColor(image, pixel.x, pixel.y, color)
    /\ written' = Append(written,
                         [x |-> pixel.x, y |-> pixel.y,
                          index |-> SetColorIndex(pixel.x, pixel.y, image.width),
                          color |-> color,
                          rows |-> {through[k].y : k \in 1..Len(through)}])
    /\ IF LastPixel(pixel, image)
       THEN phase' = "done" /\ pixel' = pixel
       ELSE phase' = "pixel" /\ pixel' = NextPixel(pixel, image)

\* The RayTrace call for the pixel under way, as traced records it
Through(pixelY, xOffset, yOffset) ==
    [imageX |-> pixel.x, imageY |-> pixel.y, x |-> pixel.x, y |-> pixelY,
     xOffset |-> xOffset, yOffset |-> yOffset]

\* if (antiAliasing) { glm::vec3 colorSum;
DeclareColorSum ==
    /\ phase = "pixel"
    /\ antiAliasing
    /\ colorSum' = IF slot.ctorInit THEN Zero3 ELSE slot.holds
    /\ traced' = [NoTraced EXCEPT !.start = colorSum']
    /\ pixel' = [pixel EXCEPT !.i = 0]
    /\ phase' = "sampling"
    /\ UNCHANGED <<ray, scene, camera, image, antiAliasing, slot, seed, written,
                   intersectVars, raycastVars, traceVars>>

SampleColor(sampleRay, color, pixelY, r1, r2) ==
    /\ ray' = sampleRay
    /\ colorSum' = VAdd(colorSum, color)
    /\ seed' = r2
    /\ traced' = [traced EXCEPT
                     !.calls = @ + 1,
                     !.sum = VAdd(@, color),
                     !.through = Append(@, Through(pixelY, PixelOffset(TRUE, r1),
                                                   PixelOffset(TRUE, r2)))]
    /\ pixel' = [pixel EXCEPT !.i = @ + 1]

SampleRay(sampleRay, pixelY, r1, r2, uninit) ==
    SampleColor(sampleRay, RayTraceLocal(sampleRay, scene, camera, uninit),
                pixelY, r1, r2)

\* One round of the loop over SAMPLES_PER_PIXEL: r1 and r2 are what the two
\* calls of rand() return
SampleThrough(pixelY, r1, r2, uninit) ==
    SampleRay(GetRayThruPixel(camera, pixel.x, pixelY,
                              PixelOffset(TRUE, r1), PixelOffset(TRUE, r2)),
              pixelY, r1, r2, uninit)

Sample ==
    /\ phase = "sampling"
    /\ pixel.i < SAMPLES_PER_PIXEL
    /\ \E uninit \in UninitInfo :
          SampleThrough(CameraRow(pixel.y, image.height),
                        Rand(seed), Rand(Rand(seed)), uninit)
    /\ UNCHANGED <<phase, scene, camera, image, antiAliasing, slot, written,
                   intersectVars, raycastVars, traceVars>>

\* colorSum /= SAMPLES_PER_PIXEL; image.SetColor(x, y, colorSum); }
WriteMean ==
    /\ phase = "sampling"
    /\ pixel.i >= SAMPLES_PER_PIXEL
    /\ colorSum' = VDiv(colorSum, SAMPLES_PER_PIXEL * One)
    /\ slot' = [slot EXCEPT !.holds = colorSum']
    /\ WritePixel(VDiv(colorSum, SAMPLES_PER_PIXEL * One), traced.through)
    /\ UNCHANGED <<ray, scene, camera, antiAliasing, seed, traced,
                   intersectVars, raycastVars, traceVars>>

CentreColor(centreRay, color, pixelY) ==
    /\ ray' = centreRay
    /\ traced' = [calls |-> 1, start |-> Zero3, sum |-> color,
                  through |-> <<Through(pixelY, PixelOffset(FALSE, seed),
                                        PixelOffset(FALSE, seed))>>]
    /\ WritePixel(color, <<Through(pixelY, PixelOffset(FALSE, seed),
                                   PixelOffset(FALSE, seed))>>)

CentreRay(centreRay, pixelY, uninit) ==
    CentreColor(centreRay, RayTraceLocal(centreRay, scene, camera, uninit), pixelY)

\* else { Ray ray(GetRayThruPixel(...)); glm::vec3 color(RayTrace(...));
\*        image.SetColor(x, y, color); }
TraceCentre ==
    /\ phase = "pixel"
    /\ ~antiAliasing
    /\ \E uninit \in UninitInfo :
          CentreRay(GetRayThruPixel(camera, pixel.x, CameraRow(pixel.y, image.height),
                                    PixelOffset(FALSE, seed), PixelOffset(FALSE, seed)),
                    CameraRow(pixel.y, image.height), uninit)
    /\ UNCHANGED <<scene, camera, colorSum, antiAliasing, slot, seed,
                   intersectVars, raycastVars, traceVars>>

NextRender == DeclareColorSum \/ Sample \/ WriteMean \/ TraceCentre

SpecRender == InitRender /\ [][NextRender]_vars

\* The three indices that SetColor call k wrote
BytesOf(k) == {written[k].index, written[k].index + 1, written[k].index + 2}

(***************************************************************************)
(* C7.  In one render of a width x height image SetColor is called exactly *)
(* once for every pixel (x, y) with 0 <= x < width and 0 <= y < height; it *)
(* writes only the three bytes at (y*width+x)*3 .. (y*width+x)*3+2; every  *)
(* such index lies inside the width*height*3 buffer; and no byte is        *)
(* written by two different pixels.                                        *)
(***************************************************************************)
C7_EachPixelWrittenOnce ==
    LET size == image.width * image.height * 3
        calls7 == 1..Len(written)
    IN  /\ DOMAIN image.data = 0..(size - 1)
        /\ \A k \in calls7 :
              /\ written[k].x \in 0..(image.width - 1)
              /\ written[k].y \in 0..(image.height - 1)
              /\ written[k].index = (written[k].y * image.width + written[k].x) * 3
              /\ BytesOf(k) \subseteq 0..(size - 1)
              /\ \A c \in 1..3 :
                    image.data[written[k].index + c - 1] = ToChar(written[k].color[c])
        /\ \A j, k \in calls7 :
              j # k => /\ <<written[j].x, written[j].y>> # <<written[k].x, written[k].y>>
                       /\ BytesOf(j) \cap BytesOf(k) = {}
        /\ \A b \in DOMAIN image.data :
              (\A k \in calls7 : b \notin BytesOf(k)) => image.data[b] = 0
        /\ phase = "done" => Len(written) = image.width * image.height

\* The largest image was rendered to its last pixel with anti-aliasing
C7_Witness ==
    /\ phase = "done"
    /\ image.width = MaxWidth /\ image.height = MaxHeight
    /\ antiAliasing
    /\ Len(written) = MaxWidth * MaxHeight

(***************************************************************************)
(* C9.  With anti-aliasing the colour written for a pixel is the           *)
(* arithmetic mean of exactly SAMPLES_PER_PIXEL RayTrace results, each     *)
(* from a ray with its own offset inside the pixel, the accumulator        *)
(* starting from zero for every pixel; without it the colour written is    *)
(* the result of exactly one RayTrace call on the ray through the pixel    *)
(* centre (offset 0.5, 0.5).                                               *)
(***************************************************************************)
C9_WrittenIsMeanOfSamples ==
    (phase \in {"pixel", "done"} /\ Len(written) > 0) =>
        LET last == written[Len(written)]
        IN  IF antiAliasing
            THEN /\ traced.calls = SAMPLES_PER_PIXEL
                 /\ Len(traced.through) = SAMPLES_PER_PIXEL
                 /\ traced.start = Zero3
                 /\ last.color = VDiv(traced.sum, SAMPLES_PER_PIXEL * One)
            ELSE /\ traced.calls = 1
                 /\ traced.through[1].xOffset = 500
                 /\ traced.through[1].yOffset = 500
                 /\ last.color = traced.sum

\* What holds of the builds in which glm's constructor zeroes colorSum
C9_MeanWhereConstructorZeroes == slot.ctorInit => C9_WrittenIsMeanOfSamples

(***************************************************************************)
(* C10.  The pixels are visited in row-major order (y from 0 upward, x     *)
(* upward within a row), and image pixel (x, y) is traced through camera   *)
(* pixel (x, height - y - 1) in the anti-aliased and in the plain path     *)
(* alike, so that image row 0 uses the highest camera row and the image    *)
(* rows map one-to-one onto the camera rows 0 .. height-1.                 *)
(***************************************************************************)
\* The camera rows that the pixels of image row y were traced through
C10_CameraRows(y) ==
    UNION {written[k].rows : k \in {j \in 1..Len(written) : written[j].y = y}}

C10_RowMajorThroughFlippedRow ==
    /\ \A k \in 1..Len(written) :
          /\ written[k].x = (k - 1) % image.width
          /\ written[k].y = (k - 1) \div image.width
    /\ phase # "done" =>
          /\ pixel.x = Len(written) % image.width
          /\ pixel.y = Len(written) \div image.width
    /\ \A k \in 1..Len(traced.through) :
          LET t == traced.through[k]
          IN  /\ t.x = t.imageX
              /\ t.y = image.height - t.imageY - 1
              /\ t.y \in 0..(image.height - 1)
              /\ t.imageY = 0 => t.y = image.height - 1
              /\ IF phase = "sampling"
                 THEN t.imageX = pixel.x /\ t.imageY = pixel.y
                 ELSE /\ t.imageX = written[Len(written)].x
                      /\ t.imageY = written[Len(written)].y
    /\ (phase \in {"pixel", "done"} /\ Len(written) > 0) => Len(traced.through) > 0
    /\ \A k \in 1..Len(written) : written[k].rows = {image.height - written[k].y - 1}
    /\ phase = "done" =>
          /\ \A y \in 0..(image.height - 1) : Cardinality(C10_CameraRows(y)) = 1
          /\ \A y, z \in 0..(image.height - 1) :
                y # z => C10_CameraRows(y) \cap C10_CameraRows(z) = {}
          /\ UNION {C10_CameraRows(y) : y \in 0..(image.height - 1)}
                = 0..(image.height - 1)

\* The first pixel of the second image row was traced with anti-aliasing,
\* through a camera row other than its own
C10_Witness ==
    /\ antiAliasing
    /\ image.height = MaxHeight
    /\ phase = "sampling" /\ pixel.i = SAMPLES_PER_PIXEL
    /\ pixel.y = 1 /\ pixel.x = 0
    /\ \A k \in 1..Len(traced.through) : traced.through[k].y = image.height - 2
=============================================================================
